---- MODULE Spec2Model ----
(***************************************************************************)
(* The connection engine (Client) of the Neuro integration SDK: Connect,   *)
(* Close, the send path, the action registry, the read/dispatch loop and   *)
(* the invocation pipeline (handleAction), as a system of goroutines, and   *)
(* one Action Window built on the engine.                                  *)
(*                                                                         *)
(* Every goroutine is a task with a program counter pc[t], a call stack of *)
(* continuations and the locals of the function it is in.  A step is what  *)
(* a goroutine does between two lock operations or blocking calls.         *)
(*                                                                         *)
(* sync.RWMutex: Lock blocks while any goroutine holds the mutex (for      *)
(* reading or writing); RLock blocks while a goroutine holds it for        *)
(* writing.  The mutex is not reentrant: a goroutine that holds Lock and   *)
(* calls RLock blocks on itself.                                           *)
(***************************************************************************)
EXTENDS Integers, Sequences, FiniteSets, TLC

\* ------------------------------------------------------------------ bounds
MaxSpawn == 1    \* frames from the peer that start a goroutine (action, reregister_all)
MaxBatch == 2    \* length of a handler list or a name list given by the host
MaxWire  == 2    \* messages the transport accepts before its writes fail

\* ------------------------------------------------------------------ values
None == <<"none", "-">>

\* Two host goroutines call every public operation, concurrently; a third,
\* the goroutine that opens the connection, calls only Connect.
Callers   == {<<"host", "x">>, <<"host", "y">>}
Hosts     == Callers \cup {<<"host", "z">>}
Pipeline(i) == <<"inv", i>>
Pipelines == {Pipeline(i) : i \in 1..MaxSpawn}
Resender(k) == <<"rereg", k>>
Resenders == {Resender(k) : k \in 1..MaxSpawn}
\* the goroutine ActionWindow.Register starts for the delayed force
Forcer    == <<"force", 1>>
Tasks     == Hosts \cup Pipelines \cup Resenders \cup {Forcer}

\* names the host registers; the peer invokes one of them, or a name nobody
\* registers
Names     == {"a", "b"}
PeerNames == {"a", "zz"}

\* ActionHandler values: two handlers share the name "a", one has no name
Handlers ==
  { [name |-> "a", impl |-> 1], [name |-> "a", impl |-> 2],
    [name |-> "b", impl |-> 1], [name |-> "",  impl |-> 1] }
NoHandler == [name |-> "-", impl |-> 0]

\* what a handler's Validate may return
States  == {"s1", "s2"}
Results == { [ok |-> TRUE, msg |-> "done"], [ok |-> FALSE, msg |-> "bad"] }
NoResult == [ok |-> FALSE, msg |-> "-"]

\* the non-empty lists over S of length at most n that repeat no element
Lists(S, n) ==
  { l \in UNION { [1..k -> S] : k \in 1..n } :
      \A i, j \in DOMAIN l : i # j => l[i] # l[j] }

\* the names of a handler list, in list order: names[i] = a.GetName()
GetNames(hs) == [k \in DOMAIN hs |-> hs[k].name]

\* query and options of a force: no option leaves the priority low
NoForce   == [query |-> "", priority |-> "low"]
ForceArgs == { [query |-> "q1", priority |-> "low"], [query |-> "q2", priority |-> "high"] }

\* ActionDefinition built from a handler (name, description, schema)
ActionDefinition(h) == [name |-> h.name, desc |-> h.impl]

\* Message: command plus the payload fields the commands use
Game == "T"
NoMsg == [cmd |-> "-", game |-> "", names |-> << >>, defs |-> << >>, id |-> 0, success |-> FALSE, message |-> "-",
          force |-> NoForce]
Message(c) == [NoMsg EXCEPT !.cmd = c]

\* fmt.Sprintf("Unknown action: %s", action.Name)
UnknownAction(n) ==
  CASE n = "a"  -> "Unknown action: a"
    [] n = "zz" -> "Unknown action: zz"

VARIABLES
  conn,        \* Client.conn: "nil", "open" or "released" (closed handle)
  connected,   \* Client.connected
  closed,      \* Client.closed
  closeChan,   \* Client.closeChan: "open" or "closed"
  panicked,    \* a goroutine panicked (close of a closed channel): the process ends
  connMu,      \* Client.connMu: [w |-> writer or None, r |-> set of readers]
  actionsMu,   \* Client.actionsMu, likewise
  actions,     \* Client.actions: [Names -> Handlers \cup {NoHandler}]
  pc,          \* [Tasks -> program counter]
  frame,       \* [Tasks -> locals of the running call]
  ret,         \* [Hosts -> operation and result of the call that returned last]
  rl,          \* readLoop goroutine: "none", "running" or "stopped"
  rlErr,       \* readLoop's local err: handleMessage returned an error (logged)
  readLoops,   \* number of readLoop goroutines ever started
  errs,        \* number of errors published on errChan
  inv,         \* [1..MaxSpawn -> the Incoming Action and handleAction's locals]
  nInv,        \* number of Incoming Actions dispatched so far
  nRereg,      \* number of actions/reregister_all commands dispatched so far
  wire,        \* the messages written to the transport, in order
  win          \* the ActionWindow: actions, query, forceOpts, registered, mu

vars == << conn, connected, closed, closeChan, panicked, connMu, actionsMu,
           actions, pc, frame, ret, rl, rlErr, readLoops, errs, inv, nInv, nRereg,
           wire, win >>

connVars   == << conn, connected, closed, closeChan, panicked >>
readerVars == << rl, rlErr, readLoops, errs, nInv, nRereg >>

NoFrame ==
  [ op |-> "-", stack |-> << >>, handlers |-> << >>, names |-> << >>,
    force |-> NoForce, msg |-> NoMsg, err |-> "nil", dialed |-> FALSE, pre |-> "-" ]

NoInv ==
  [ name |-> "-", handler |-> NoHandler, state |-> "-", result |-> NoResult,
    attempts |-> 0, payload |-> NoMsg, execs |-> << >> ]

\* func (c *Client) NewActionWindow() *ActionWindow
NewActionWindow ==
  [ actions |-> << >>, force |-> NoForce, registered |-> FALSE, mu |-> None ]

FreeMu == [w |-> None, r |-> {}]

\* no call of the host has returned: operation, error and, for the properties,
\* whether it dialed and the handler list a validation error rejected
NoRet ==
  [ op |-> "-", err |-> "nil", dialed |-> FALSE, handlers |-> << >> ]

Init ==
  /\ conn = "nil"
  /\ connected = FALSE
  /\ closed = FALSE
  /\ closeChan = "open"
  /\ panicked = FALSE
  /\ connMu = FreeMu
  /\ actionsMu = FreeMu
  /\ actions = [n \in Names |-> NoHandler]
  /\ pc = [t \in Tasks |-> IF t \in Hosts THEN "idle" ELSE "unborn"]
  /\ frame = [t \in Tasks |-> NoFrame]
  /\ ret = [h \in Hosts |-> NoRet]
  /\ rl = "none"
  /\ rlErr = FALSE
  /\ readLoops = 0
  /\ errs = 0
  /\ inv = [i \in 1..MaxSpawn |-> NoInv]
  /\ nInv = 0
  /\ nRereg = 0
  /\ wire = << >>
  /\ win = NewActionWindow

\* ------------------------------------------------------------------ locks
CanLock(mu)    == mu.w = None /\ mu.r = {}
CanRLock(mu)   == mu.w = None
Lock(mu, t)    == [mu EXCEPT !.w = t]
Unlock(mu, t)  == [mu EXCEPT !.w = None]
RLock(mu, t)   == [mu EXCEPT !.r = @ \cup {t}]
RUnlock(mu, t) == [mu EXCEPT !.r = @ \ {t}]

\* ------------------------------------------------------------------ calls
\* Call f from task t: continue at `back` when f returns.
Push(fr, back) == [fr EXCEPT !.stack = <<back>> \o @]

\* Return from the running function, whose locals are fr, with error e: to the
\* caller's continuation, or, from the outermost function, to the end of the
\* goroutine's work (a host goroutine is then free to make its next call).
PcReturn(t, fr) ==
  IF fr.stack # << >> THEN Head(fr.stack)
  ELSE IF t \in Hosts THEN "idle" ELSE "done"

FrameReturn(t, fr, e) ==
  IF fr.stack # << >> THEN [fr EXCEPT !.stack = Tail(@), !.err = e] ELSE NoFrame

RetReturn(t, fr, e) ==
  IF fr.stack = << >> /\ t \in Hosts
  THEN [h \in Hosts |->
          IF h = t
          THEN [op |-> fr.op, err |-> e, dialed |-> fr.dialed,
                handlers |-> IF e = "action name cannot be empty" THEN fr.handlers ELSE << >>]
          ELSE NoRet]
  ELSE ret

Return(t, fr, e) ==
  /\ pc' = [pc EXCEPT ![t] = PcReturn(t, fr)]
  /\ frame' = [frame EXCEPT ![t] = FrameReturn(t, fr, e)]
  /\ ret' = RetReturn(t, fr, e)

\* The engine's lifecycle state, noted in a call's locals when the call is made
\* (the code does not read it there: the properties refer to it).
EngineState ==
  IF closed THEN "closed" ELSE IF connected THEN "connected" ELSE "fresh"

\* A host goroutine calls a public operation op: at pc `at` with locals fr.
Call(t, at, fr) ==
  /\ pc' = [pc EXCEPT ![t] = at]
  /\ frame' = [frame EXCEPT ![t] = fr]
  /\ ret' = [ret EXCEPT ![t] = NoRet]

\* ------------------------------------------------------------------ send
\* func (c *Client) send(msg Message) error
send(t) ==
  /\ ~panicked
  /\ pc[t] \in {"send", "send_locked", "send_write"}
  /\ CASE pc[t] = "send" ->                    \* c.connMu.RLock()
            /\ CanRLock(connMu)
            /\ connMu' = RLock(connMu, t)
            /\ pc' = [pc EXCEPT ![t] = "send_locked"]
            /\ UNCHANGED << frame, ret, wire >>
       [] pc[t] = "send_locked" ->             \* if !c.connected { return }
            IF ~connected
            THEN /\ connMu' = RUnlock(connMu, t)
                 /\ Return(t, frame[t], "not connected")
                 /\ UNCHANGED wire
            ELSE /\ pc' = [pc EXCEPT ![t] = "send_write"]   \* msg.Game = ...; WriteMessage begins
                 /\ frame' = [frame EXCEPT ![t].msg.game = Game]
                 /\ UNCHANGED << connMu, ret, wire >>
       [] pc[t] = "send_write" ->              \* c.conn.WriteMessage returns
            \E ok \in BOOLEAN :
              /\ ok => (conn = "open" /\ Len(wire) < MaxWire)
              /\ wire' = IF ok THEN Append(wire, frame[t].msg) ELSE wire
              /\ connMu' = RUnlock(connMu, t)
              /\ Return(t, frame[t], IF ok THEN "nil" ELSE "failed to send message")
  /\ UNCHANGED << connVars, actionsMu, actions, readerVars, inv, win >>

\* func (c *Client) Startup() error
Startup == Message("startup")

\* func (c *Client) SendActionResult(id, success, message) error: the message
SendActionResult(id, success, message) ==
  [Message("action/result") EXCEPT !.id = id, !.success = success, !.message = message]

\* ------------------------------------------------------------------ Connect
\* func (c *Client) Connect() error
Connect(t) ==
  /\ ~panicked
  /\ t \in Hosts
  /\ pc[t] \in {"idle", "Connect", "Connect_started"}
  /\ CASE pc[t] = "idle" ->
            /\ Call(t, "Connect", [NoFrame EXCEPT !.op = "Connect", !.pre = EngineState])
            /\ UNCHANGED << connVars, connMu, rl, readLoops >>
       [] pc[t] = "Connect" ->                 \* c.connMu.Lock(); defer Unlock
            /\ CanLock(connMu)
            /\ IF closed
               THEN /\ Return(t, frame[t], "client is closed")
                    /\ UNCHANGED << connVars, connMu, rl, readLoops >>
               ELSE IF connected
               THEN /\ Return(t, frame[t], "already connected")
                    /\ UNCHANGED << connVars, connMu, rl, readLoops >>
               ELSE \E dial \in BOOLEAN :      \* url.Parse, DefaultDialer.Dial
                      IF ~dial
                      THEN /\ Return(t, [frame[t] EXCEPT !.dialed = TRUE], "failed to connect")
                           /\ UNCHANGED << connVars, connMu, rl, readLoops >>
                      ELSE /\ conn' = "open"
                           /\ connected' = TRUE
                           /\ rl' = "running"             \* go c.readLoop()
                           /\ readLoops' = readLoops + 1
                           /\ connMu' = Lock(connMu, t)
                           /\ pc' = [pc EXCEPT ![t] = "send"]     \* c.Startup()
                           /\ frame' = [frame EXCEPT ![t] =
                                 Push([@ EXCEPT !.dialed = TRUE, !.msg = Startup], "Connect_started")]
                           /\ UNCHANGED << closed, closeChan, panicked, ret >>
       [] pc[t] = "Connect_started" ->         \* startup error is logged; return nil
            /\ connMu' = Unlock(connMu, t)
            /\ Return(t, frame[t], "nil")
            /\ UNCHANGED << connVars, rl, readLoops >>
  /\ UNCHANGED << actionsMu, actions, rlErr, errs, inv, nInv, nRereg, wire, win >>

\* ------------------------------------------------------------------ Close
\* func (c *Client) Close() error
Close(t) ==
  /\ ~panicked
  /\ t \in Hosts
  /\ pc[t] \in {"idle", "Close"}
  /\ CASE pc[t] = "idle" ->
            /\ Call(t, "Close", [NoFrame EXCEPT !.op = "Close", !.pre = EngineState])
            /\ UNCHANGED connVars
       [] pc[t] = "Close" ->                   \* c.connMu.Lock(); defer Unlock
            /\ CanLock(connMu)
            /\ IF closed
               THEN /\ Return(t, frame[t], "nil")
                    /\ UNCHANGED connVars
               ELSE /\ closed' = TRUE
                    /\ closeChan' = "closed"               \* close(c.closeChan)
                    /\ panicked' = (panicked \/ closeChan = "closed")
                    /\ conn' = IF conn # "nil" THEN "released" ELSE conn   \* c.conn.Close()
                    /\ \E e \in {"nil", "close error"} :
                         /\ (conn = "nil" => e = "nil")
                         /\ Return(t, frame[t], e)
                    /\ UNCHANGED connected
  /\ UNCHANGED << connMu, actionsMu, actions, readerVars, inv, wire, win >>

\* ------------------------------------------------------------------ host sends
\* func (c *Client) SendContext(message string, silent bool) error
SendContext(t) ==
  /\ ~panicked
  /\ t \in Hosts /\ pc[t] = "idle"
  /\ Call(t, "send", [NoFrame EXCEPT !.op = "SendContext",
            !.msg = [Message("context") EXCEPT !.message = "ctx"]])
  /\ UNCHANGED << connVars, connMu, actionsMu, actions, readerVars, inv, wire, win >>

\* func (c *Client) SendShutdownReady() error
SendShutdownReady(t) ==
  /\ ~panicked
  /\ t \in Hosts /\ pc[t] = "idle"
  /\ Call(t, "send", [NoFrame EXCEPT !.op = "SendShutdownReady", !.msg = Message("shutdown/ready")])
  /\ UNCHANGED << connVars, connMu, actionsMu, actions, readerVars, inv, wire, win >>

\* ------------------------------------------------------------------ registry
\* The loop, were it to keep the handler a name already has.
RECURSIVE RegisterLoop_KeepFirst(_, _, _, _)
RegisterLoop_KeepFirst(handlers, k, reg, defs) ==
  IF k > Len(handlers) THEN [actions |-> reg, defs |-> defs, err |-> "nil"]
  ELSE IF handlers[k].name = ""
  THEN [actions |-> reg, defs |-> defs, err |-> "action name cannot be empty"]
  ELSE RegisterLoop_KeepFirst(handlers, k + 1,
         IF reg[handlers[k].name] # NoHandler THEN reg
         ELSE [reg EXCEPT ![handlers[k].name] = handlers[k]],
         Append(defs, ActionDefinition(handlers[k])))

\* The loop, were it to check the names only after inserting every handler.
RECURSIVE RegisterLoop_CheckLast(_, _, _, _)
RegisterLoop_CheckLast(handlers, k, reg, defs) ==
  IF k > Len(handlers)
  THEN [actions |-> reg, defs |-> defs,
        err |-> IF \E j \in DOMAIN handlers : handlers[j].name = ""
                THEN "action name cannot be empty" ELSE "nil"]
  ELSE RegisterLoop_CheckLast(handlers, k + 1,
         IF handlers[k].name = "" THEN reg
         ELSE [reg EXCEPT ![handlers[k].name] = handlers[k]],
         Append(defs, ActionDefinition(handlers[k])))

\* The loop of RegisterActions over handlers[k..]: the registry and the
\* definitions built so far, and whether an empty name stopped it.
RECURSIVE RegisterLoop(_, _, _, _)
RegisterLoop(handlers, k, reg, defs) ==
  IF k > Len(handlers) THEN [actions |-> reg, defs |-> defs, err |-> "nil"]
  ELSE IF handlers[k].name = ""
  THEN [actions |-> reg, defs |-> defs, err |-> "action name cannot be empty"]
  ELSE RegisterLoop(handlers, k + 1,
                    [reg EXCEPT ![handlers[k].name] = handlers[k]],
                    Append(defs, ActionDefinition(handlers[k])))

\* The handlers argument of a RegisterActions call.  A host's list, which
\* nothing reads before the loop runs, is drawn when the loop runs; the list
\* resendRegisteredActions or ActionWindow.Register passes was read before the
\* call.
HandlersArg(t) ==
  IF frame[t].op = "RegisterActions" THEN Lists(Handlers, MaxBatch) ELSE {frame[t].handlers}

\* func (c *Client) RegisterActions(handlers []ActionHandler) error
RegisterActions(t) ==
  /\ ~panicked
  /\ pc[t] \in {"idle", "RegisterActions", "RegisterActions_sent"}
  /\ CASE pc[t] = "idle" ->
            /\ t \in Callers
            /\ \E empty \in BOOLEAN :             \* if len(handlers) == 0 { return nil }
                 LET fr == [NoFrame EXCEPT !.op = "RegisterActions"]
                 IN  IF empty
                     THEN /\ Return(t, fr, "nil")
                     ELSE /\ Call(t, "RegisterActions", fr)
            /\ UNCHANGED << actionsMu, actions >>
       [] pc[t] = "RegisterActions" ->         \* c.actionsMu.Lock(); defer Unlock
            /\ CanLock(actionsMu)
            /\ \E handlers \in HandlersArg(t) :
               LET out == RegisterLoop(handlers, 1, actions, << >>)
                   fr  == [frame[t] EXCEPT !.handlers = handlers]
               IN  /\ actions' = out.actions
                   /\ IF out.err # "nil"
                      THEN /\ Return(t, fr, out.err)
                           /\ UNCHANGED actionsMu
                      ELSE /\ actionsMu' = Lock(actionsMu, t)
                           /\ pc' = [pc EXCEPT ![t] = "send"]
                           /\ frame' = [frame EXCEPT ![t] =
                                Push([fr EXCEPT !.msg = [Message("actions/register") EXCEPT !.defs = out.defs]],
                                     "RegisterActions_sent")]
                           /\ UNCHANGED ret
       [] pc[t] = "RegisterActions_sent" ->    \* return c.send(...), deferred Unlock
            /\ actionsMu' = Unlock(actionsMu, t)
            /\ Return(t, frame[t], frame[t].err)
            /\ UNCHANGED actions
  /\ UNCHANGED << connVars, connMu, readerVars, inv, wire, win >>

\* The loop of UnregisterActions: delete(c.actions, name) for names[k..]
RECURSIVE UnregisterLoop(_, _, _)
UnregisterLoop(names, k, reg) ==
  IF k > Len(names) THEN reg
  ELSE UnregisterLoop(names, k + 1,
                      [n \in Names |-> IF n = names[k] THEN NoHandler ELSE reg[n]])

\* The names argument of an UnregisterActions call, drawn like HandlersArg.
NamesArg(t) ==
  IF frame[t].op = "UnregisterActions" THEN Lists(Names, MaxBatch) ELSE {frame[t].names}

\* UnregisterActions, were it to release actionsMu before it sends.
UnregisterActions_UnlockBeforeSend(t) ==
  /\ ~panicked
  /\ pc[t] \in {"idle", "UnregisterActions", "UnregisterActions_sent"}
  /\ CASE pc[t] = "idle" ->
            /\ t \in Callers
            /\ \E empty \in BOOLEAN :
                 LET fr == [NoFrame EXCEPT !.op = "UnregisterActions"]
                 IN  IF empty
                     THEN /\ Return(t, fr, "nil")
                     ELSE /\ Call(t, "UnregisterActions", fr)
            /\ UNCHANGED << actionsMu, actions >>
       [] pc[t] = "UnregisterActions" ->
            /\ CanLock(actionsMu)
            /\ \E names \in NamesArg(t) :
                 /\ actions' = UnregisterLoop(names, 1, actions)
                 /\ frame' = [frame EXCEPT ![t] =
                      Push([@ EXCEPT !.names = names,
                                     !.msg = [Message("actions/unregister") EXCEPT !.names = names]],
                           "UnregisterActions_sent")]
            /\ pc' = [pc EXCEPT ![t] = "send"]
            /\ UNCHANGED << actionsMu, ret >>
       [] pc[t] = "UnregisterActions_sent" ->
            /\ Return(t, frame[t], frame[t].err)
            /\ UNCHANGED << actionsMu, actions >>
  /\ UNCHANGED << connVars, connMu, readerVars, inv, wire, win >>

\* func (c *Client) UnregisterActions(names []string) error
UnregisterActions(t) ==
  /\ ~panicked
  /\ pc[t] \in {"idle", "UnregisterActions", "UnregisterActions_sent"}
  /\ CASE pc[t] = "idle" ->
            /\ t \in Callers
            /\ \E empty \in BOOLEAN :             \* if len(names) == 0 { return nil }
                 LET fr == [NoFrame EXCEPT !.op = "UnregisterActions"]
                 IN  IF empty
                     THEN /\ Return(t, fr, "nil")
                     ELSE /\ Call(t, "UnregisterActions", fr)
            /\ UNCHANGED << actionsMu, actions >>
       [] pc[t] = "UnregisterActions" ->       \* c.actionsMu.Lock(); defer Unlock
            /\ CanLock(actionsMu)
            /\ \E names \in NamesArg(t) :
                 /\ actions' = UnregisterLoop(names, 1, actions)
                 /\ frame' = [frame EXCEPT ![t] =
                      Push([@ EXCEPT !.names = names,
                                     !.msg = [Message("actions/unregister") EXCEPT !.names = names]],
                           "UnregisterActions_sent")]
            /\ actionsMu' = Lock(actionsMu, t)
            /\ pc' = [pc EXCEPT ![t] = "send"]
            /\ UNCHANGED ret
       [] pc[t] = "UnregisterActions_sent" ->  \* return c.send(...), deferred Unlock
            /\ actionsMu' = Unlock(actionsMu, t)
            /\ Return(t, frame[t], frame[t].err)
            /\ UNCHANGED actions
  /\ UNCHANGED << connVars, connMu, readerVars, inv, wire, win >>

\* ------------------------------------------------------------------ force
\* The actions/force message ForceActions builds from its arguments.
ForceMessage(force, names) ==
  [Message("actions/force") EXCEPT !.names = names, !.force = force]

\* func (c *Client) ForceActions(query string, actionNames []string, opts ...ForceOption) error
ForceActions(t) ==
  /\ ~panicked
  /\ t \in Hosts /\ pc[t] = "idle"
  /\ \E names \in Lists(Names, MaxBatch) \cup {<< >>}, force \in ForceArgs :
       LET fr == [NoFrame EXCEPT !.op = "ForceActions", !.names = names, !.force = force]
       IN  IF Len(names) = 0                   \* if len(actionNames) == 0 { return error }
           THEN Return(t, fr, "must specify at least one action name")
           ELSE Call(t, "send", [fr EXCEPT !.msg = ForceMessage(force, names)])
  /\ UNCHANGED << connVars, connMu, actionsMu, actions, readerVars, inv, wire, win >>

\* ------------------------------------------------------------------ reading
\* The frames the peer may send: an undecodable envelope, an action whose
\* payload is undecodable, an action, actions/reregister_all, or a command the
\* engine does not handle.
Frames ==
  { [kind |-> k, name |-> "-"] : k \in {"garbage", "badaction", "reregister_all", "other"} }
    \cup { [kind |-> "action", name |-> n] : n \in PeerNames }

\* func (c *Client) handleMessage(msgBytes []byte) error: the goroutine it starts
handleMessage(f) ==
  CASE f.kind = "action" ->                    \* go c.handleAction(action)
         /\ nInv' = nInv + 1
         /\ inv' = [inv EXCEPT ![nInv + 1] = [NoInv EXCEPT !.name = f.name]]
         /\ pc' = [pc EXCEPT ![Pipeline(nInv + 1)] = "handleAction"]
         /\ UNCHANGED nRereg
    [] f.kind = "reregister_all" ->            \* go c.resendRegisteredActions()
         /\ nRereg' = nRereg + 1
         /\ pc' = [pc EXCEPT ![Resender(nRereg + 1)] = "resendRegisteredActions"]
         /\ UNCHANGED << nInv, inv >>
    [] OTHER ->                                \* logged
         UNCHANGED << nInv, nRereg, inv, pc >>

\* readLoop, were it to return when handleMessage fails (skips = FALSE), or to
\* go on reading after a read failure (stops = FALSE).
readLoop_Variant(skips, stops) ==
  /\ ~panicked
  /\ rl = "running"
  /\ \E f \in Frames \cup {[kind |-> "error", name |-> "-"]} :
       /\ (f.kind \in {"action", "reregister_all"}) => nInv + nRereg < MaxSpawn
       /\ (conn # "open") => f.kind = "error"
       /\ IF f.kind = "error"
          THEN /\ errs' = IF ~closed THEN errs + 1 ELSE errs
               /\ rl' = IF stops THEN "stopped" ELSE "running"
               /\ rlErr' = FALSE
               /\ UNCHANGED << nInv, nRereg, inv, pc >>
          ELSE /\ handleMessage(f)
               /\ rlErr' = (f.kind \in {"garbage", "badaction"})
               /\ rl' = IF closeChan = "closed" \/ (rlErr' /\ ~skips)
                        THEN "stopped" ELSE "running"
               /\ UNCHANGED errs
  /\ UNCHANGED << connVars, connMu, actionsMu, actions, frame, ret, readLoops, wire, win >>

readLoop_StopOnError == readLoop_Variant(FALSE, TRUE)

readLoop_KeepsReading == readLoop_Variant(TRUE, FALSE)

\* func (c *Client) readLoop(): one return of c.conn.ReadMessage()
readLoop ==
  /\ ~panicked
  /\ rl = "running"
  /\ \E f \in Frames \cup {[kind |-> "error", name |-> "-"]} :
       /\ (f.kind \in {"action", "reregister_all"}) => nInv + nRereg < MaxSpawn
       /\ (conn # "open") => f.kind = "error"
       /\ IF f.kind = "error"
          THEN /\ errs' = IF ~closed THEN errs + 1 ELSE errs    \* c.errChan <- err
               /\ rl' = "stopped"
               /\ rlErr' = FALSE                                 \* return
               /\ UNCHANGED << nInv, nRereg, inv, pc >>
          ELSE /\ handleMessage(f)
               /\ rlErr' = (f.kind \in {"garbage", "badaction"})  \* logged
               /\ rl' = IF closeChan = "closed" THEN "stopped" ELSE "running"   \* select
               /\ UNCHANGED errs
  /\ UNCHANGED << connVars, connMu, actionsMu, actions, frame, ret, readLoops, wire, win >>

\* ------------------------------------------------------------------ reregister
\* The handlers of the registry in the orders a range over the map may yield.
RegistryOrders(reg) ==
  LET present == {n \in Names : reg[n] # NoHandler}
  IN  { hs \in [1..Cardinality(present) -> Handlers] :
          /\ \A n \in present : \E k \in DOMAIN hs : hs[k] = reg[n]
          /\ \A k \in DOMAIN hs : hs[k].name \in present /\ hs[k] = reg[hs[k].name] }

\* func (c *Client) resendRegisteredActions()
resendRegisteredActions(k) ==
  LET t == Resender(k) IN
  /\ ~panicked
  /\ pc[t] \in {"resendRegisteredActions", "resendRegisteredActions_done"}
  /\ CASE pc[t] = "resendRegisteredActions" ->   \* RLock; range c.actions; RUnlock
            /\ CanRLock(actionsMu)
            /\ \E handlers \in RegistryOrders(actions) :
                 IF Len(handlers) > 0          \* c.RegisterActions(handlers)
                 THEN /\ pc' = [pc EXCEPT ![t] = "RegisterActions"]
                      /\ frame' = [frame EXCEPT ![t] =
                           Push([NoFrame EXCEPT !.op = "resendRegisteredActions",
                                                !.handlers = handlers],
                                "resendRegisteredActions_done")]
                 ELSE /\ pc' = [pc EXCEPT ![t] = "done"]
                      /\ UNCHANGED frame
       [] pc[t] = "resendRegisteredActions_done" ->   \* the error is logged
            /\ pc' = [pc EXCEPT ![t] = "done"]
            /\ frame' = [frame EXCEPT ![t] = NoFrame]
  /\ UNCHANGED << connVars, connMu, actionsMu, actions, ret, readerVars, inv, wire, win >>

\* ------------------------------------------------------------------ window
\* AddAction, were it not to test w.registered.
AddAction_Unchecked(t) ==
  /\ ~panicked
  /\ t \in Hosts
  /\ pc[t] \in {"idle", "AddAction"}
  /\ CASE pc[t] = "idle" ->
            /\ Len(win.actions) + Cardinality({h \in Hosts : pc[h] = "AddAction"}) < MaxBatch
            /\ Call(t, "AddAction", [NoFrame EXCEPT !.op = "AddAction"])
            /\ UNCHANGED win
       [] pc[t] = "AddAction" ->
            /\ win.mu = None
            /\ \E handler \in Handlers :
                 /\ win' = [win EXCEPT !.actions = Append(@, handler)]
                 /\ Return(t, frame[t], "nil")
  /\ UNCHANGED << connVars, connMu, actionsMu, actions, readerVars, inv, wire >>

\* func (w *ActionWindow) AddAction(handler ActionHandler) *ActionWindow
\* The host adds at most MaxBatch handlers to the window.
AddAction(t) ==
  /\ ~panicked
  /\ t \in Hosts
  /\ pc[t] \in {"idle", "AddAction"}
  /\ CASE pc[t] = "idle" ->
            /\ \/ win.registered
               \/ Len(win.actions) + Cardinality({h \in Hosts : pc[h] = "AddAction"}) < MaxBatch
            /\ Call(t, "AddAction", [NoFrame EXCEPT !.op = "AddAction"])
            /\ UNCHANGED win
       [] pc[t] = "AddAction" ->               \* w.mu.Lock(); defer Unlock
            /\ win.mu = None
            /\ \E handler \in Handlers :
                 /\ win' = IF win.registered THEN win    \* logged
                           ELSE [win EXCEPT !.actions = Append(@, handler)]
                 /\ Return(t, frame[t], "nil")
  /\ UNCHANGED << connVars, connMu, actionsMu, actions, readerVars, inv, wire >>

\* func (w *ActionWindow) SetForce(query string, opts ...ForceOption) *ActionWindow
SetForce(t) ==
  /\ ~panicked
  /\ t \in Hosts
  /\ pc[t] \in {"idle", "SetForce"}
  /\ CASE pc[t] = "idle" ->
            /\ Call(t, "SetForce", [NoFrame EXCEPT !.op = "SetForce"])
            /\ UNCHANGED win
       [] pc[t] = "SetForce" ->                \* w.mu.Lock(); defer Unlock
            /\ win.mu = None
            /\ \E force \in ForceArgs :
                 /\ win' = IF win.registered THEN win    \* logged
                           ELSE [win EXCEPT !.force = force]
                 /\ Return(t, frame[t], "nil")
  /\ UNCHANGED << connVars, connMu, actionsMu, actions, readerVars, inv, wire >>

\* Register, were it to start the force goroutine whatever RegisterActions
\* returned.
Register_ForceAnyway(t) ==
  /\ ~panicked
  /\ pc[t] \in {"idle", "Register", "Register_registered", "Register_delay", "Register_forced"}
  /\ CASE pc[t] = "idle" ->
            /\ t \in Callers
            /\ Call(t, "Register", [NoFrame EXCEPT !.op = "Register"])
            /\ UNCHANGED win
       [] pc[t] = "Register" ->
            /\ win.mu = None
            /\ IF win.registered
               THEN /\ Return(t, frame[t], "window already registered")
                    /\ UNCHANGED win
               ELSE IF Len(win.actions) = 0
               THEN /\ Return(t, frame[t], "no actions in window")
                    /\ UNCHANGED win
               ELSE /\ win' = [win EXCEPT !.registered = TRUE, !.mu = t]
                    /\ pc' = [pc EXCEPT ![t] = "RegisterActions"]
                    /\ frame' = [frame EXCEPT ![t] =
                         Push([@ EXCEPT !.handlers = win.actions], "Register_registered")]
                    /\ UNCHANGED ret
       [] pc[t] = "Register_registered" ->
            /\ win' = [win EXCEPT !.mu = None]
            /\ pc' = [pc EXCEPT ![t] = PcReturn(t, frame[t]), ![Forcer] = "Register_delay"]
            /\ frame' = [frame EXCEPT ![t] = FrameReturn(t, frame[t], "nil"),
                                      ![Forcer] = [NoFrame EXCEPT !.op = "Register",
                                                     !.names = GetNames(win.actions)]]
            /\ ret' = RetReturn(t, frame[t], "nil")
       [] pc[t] = "Register_delay" ->
            /\ pc' = [pc EXCEPT ![t] = "send"]
            /\ frame' = [frame EXCEPT ![t] =
                 Push([@ EXCEPT !.msg = ForceMessage(win.force, frame[t].names)], "Register_forced")]
            /\ UNCHANGED << ret, win >>
       [] pc[t] = "Register_forced" ->
            /\ pc' = [pc EXCEPT ![t] = "done"]
            /\ frame' = [frame EXCEPT ![t] = NoFrame]
            /\ UNCHANGED << ret, win >>
  /\ UNCHANGED << connVars, connMu, actionsMu, actions, readerVars, inv, wire >>

\* func (w *ActionWindow) Register() error, and the goroutine it starts
Register(t) ==
  /\ ~panicked
  /\ pc[t] \in {"idle", "Register", "Register_registered", "Register_delay", "Register_forced"}
  /\ CASE pc[t] = "idle" ->
            /\ t \in Callers
            /\ Call(t, "Register", [NoFrame EXCEPT !.op = "Register"])
            /\ UNCHANGED win
       [] pc[t] = "Register" ->                \* w.mu.Lock(); defer Unlock
            /\ win.mu = None
            /\ IF win.registered
               THEN /\ Return(t, frame[t], "window already registered")
                    /\ UNCHANGED win
               ELSE IF Len(win.actions) = 0
               THEN /\ Return(t, frame[t], "no actions in window")
                    /\ UNCHANGED win
               ELSE /\ win' = [win EXCEPT !.registered = TRUE, !.mu = t]
                    /\ pc' = [pc EXCEPT ![t] = "RegisterActions"]   \* w.client.RegisterActions(w.actions)
                    /\ frame' = [frame EXCEPT ![t] =
                         Push([@ EXCEPT !.handlers = win.actions], "Register_registered")]
                    /\ UNCHANGED ret
       [] pc[t] = "Register_registered" ->
            /\ win' = [win EXCEPT !.mu = None]
            /\ IF frame[t].err # "nil"
               THEN Return(t, frame[t], "failed to register actions")
               ELSE /\ pc' = [pc EXCEPT ![t] = PcReturn(t, frame[t]),    \* go func() { ... }()
                                        ![Forcer] = "Register_delay"]
                    /\ frame' = [frame EXCEPT ![t] = FrameReturn(t, frame[t], "nil"),
                                              ![Forcer] = [NoFrame EXCEPT !.op = "Register",
                                                             !.names = GetNames(win.actions)]]
                    /\ ret' = RetReturn(t, frame[t], "nil")
       [] pc[t] = "Register_delay" ->          \* time.Sleep returns; w.client.ForceActions(...)
            /\ pc' = [pc EXCEPT ![t] = "send"]
            /\ frame' = [frame EXCEPT ![t] =
                 Push([@ EXCEPT !.msg = ForceMessage(win.force, frame[t].names)], "Register_forced")]
            /\ UNCHANGED << ret, win >>
       [] pc[t] = "Register_forced" ->         \* the error is logged
            /\ pc' = [pc EXCEPT ![t] = "done"]
            /\ frame' = [frame EXCEPT ![t] = NoFrame]
            /\ UNCHANGED << ret, win >>
  /\ UNCHANGED << connVars, connMu, actionsMu, actions, readerVars, inv, wire >>

\* func (w *ActionWindow) End() error
End(t) ==
  /\ ~panicked
  /\ t \in Hosts
  /\ pc[t] \in {"idle", "End", "End_unregistered"}
  /\ CASE pc[t] = "idle" ->
            /\ Call(t, "End", [NoFrame EXCEPT !.op = "End"])
            /\ UNCHANGED win
       [] pc[t] = "End" ->                     \* w.mu.Lock(); defer Unlock
            /\ win.mu = None
            /\ IF ~win.registered
               THEN /\ Return(t, frame[t], "nil")
                    /\ UNCHANGED win
               ELSE /\ win' = [win EXCEPT !.mu = t]
                    /\ pc' = [pc EXCEPT ![t] = "UnregisterActions"]  \* w.client.UnregisterActions(names)
                    /\ frame' = [frame EXCEPT ![t] =
                         Push([@ EXCEPT !.names = GetNames(win.actions)], "End_unregistered")]
                    /\ UNCHANGED ret
       [] pc[t] = "End_unregistered" ->
            /\ win' = [win EXCEPT !.mu = None]
            /\ Return(t, frame[t], frame[t].err)
  /\ UNCHANGED << connVars, connMu, actionsMu, actions, readerVars, inv, wire >>

\* ------------------------------------------------------------------ pipeline
\* handleAction with Execute called right after Validate, before the result is
\* sent; `checked` keeps or drops the test of result.Successful.
handleAction_ExecuteEarly(i, checked) ==
  LET t == Pipeline(i) IN
  /\ ~panicked
  /\ pc[t] \in {"handleAction", "handleAction_validate", "handleAction_executed",
                "handleAction_unknown", "handleAction_sent"}
  /\ CASE pc[t] = "handleAction" ->
            /\ CanRLock(actionsMu)
            /\ IF inv[i].name \in Names /\ actions[inv[i].name] # NoHandler
               THEN /\ inv' = [inv EXCEPT ![i].handler = actions[inv[i].name]]
                    /\ pc' = [pc EXCEPT ![t] = "handleAction_validate"]
                    /\ UNCHANGED frame
               ELSE LET m == SendActionResult(i, FALSE, UnknownAction(inv[i].name))
                    IN  /\ inv' = [inv EXCEPT ![i].attempts = @ + 1, ![i].payload = m]
                        /\ pc' = [pc EXCEPT ![t] = "send"]
                        /\ frame' = [frame EXCEPT ![t] =
                             Push([NoFrame EXCEPT !.msg = m], "handleAction_unknown")]
       [] pc[t] = "handleAction_validate" ->
            \E state \in States, result \in Results :
              /\ inv' = [inv EXCEPT ![i].state = state, ![i].result = result,
                                    ![i].execs = IF result.ok \/ ~checked
                                                 THEN Append(@, state) ELSE @]
              /\ pc' = [pc EXCEPT ![t] = "handleAction_executed"]
              /\ UNCHANGED frame
       [] pc[t] = "handleAction_executed" ->
            LET m == SendActionResult(i, inv[i].result.ok, inv[i].result.msg)
            IN  /\ inv' = [inv EXCEPT ![i].attempts = @ + 1, ![i].payload = m]
                /\ pc' = [pc EXCEPT ![t] = "send"]
                /\ frame' = [frame EXCEPT ![t] =
                     Push([NoFrame EXCEPT !.msg = m], "handleAction_sent")]
       [] pc[t] \in {"handleAction_unknown", "handleAction_sent"} ->
            /\ pc' = [pc EXCEPT ![t] = "done"]
            /\ frame' = [frame EXCEPT ![t] = NoFrame]
            /\ UNCHANGED inv
  /\ UNCHANGED << connVars, connMu, actionsMu, actions, ret, readerVars, wire, win >>

handleAction_ExecuteBeforeResult(i) == handleAction_ExecuteEarly(i, TRUE)

handleAction_ExecuteUnchecked(i) == handleAction_ExecuteEarly(i, FALSE)

\* func (c *Client) handleAction(action IncomingAction); the action's id is i
handleAction(i) ==
  LET t == Pipeline(i) IN
  /\ ~panicked
  /\ pc[t] \in {"handleAction", "handleAction_validate", "handleAction_unknown", "handleAction_sent"}
  /\ CASE pc[t] = "handleAction" ->            \* RLock; c.actions[action.Name]; RUnlock
            /\ CanRLock(actionsMu)
            /\ IF inv[i].name \in Names /\ actions[inv[i].name] # NoHandler
               THEN /\ inv' = [inv EXCEPT ![i].handler = actions[inv[i].name]]
                    /\ pc' = [pc EXCEPT ![t] = "handleAction_validate"]
                    /\ UNCHANGED frame
               ELSE LET m == SendActionResult(i, FALSE, UnknownAction(inv[i].name))
                    IN  /\ inv' = [inv EXCEPT ![i].attempts = @ + 1, ![i].payload = m]
                        /\ pc' = [pc EXCEPT ![t] = "send"]
                        /\ frame' = [frame EXCEPT ![t] =
                             Push([NoFrame EXCEPT !.msg = m], "handleAction_unknown")]
       [] pc[t] = "handleAction_validate" ->   \* handler.Validate; SendActionResult
            \/ \* Validate, the host's code, unregisters the action it serves
               \* before it returns (what the README advises for a disposable action)
               /\ frame[t].op # "Validate"
               /\ pc' = [pc EXCEPT ![t] = "UnregisterActions"]
               /\ frame' = [frame EXCEPT ![t] =
                    Push([NoFrame EXCEPT !.op = "Validate", !.names = << inv[i].name >>],
                         "handleAction_validate")]
               /\ UNCHANGED inv
            \/ \E state \in States, result \in Results :
                 LET m == SendActionResult(i, result.ok, result.msg)
                 IN  /\ inv' = [inv EXCEPT ![i].state = state, ![i].result = result,
                                           ![i].attempts = @ + 1, ![i].payload = m]
                     /\ pc' = [pc EXCEPT ![t] = "send"]
                     /\ frame' = [frame EXCEPT ![t] =
                          Push([NoFrame EXCEPT !.msg = m], "handleAction_sent")]
       [] pc[t] = "handleAction_unknown" ->    \* return
            /\ pc' = [pc EXCEPT ![t] = "done"]
            /\ frame' = [frame EXCEPT ![t] = NoFrame]
            /\ UNCHANGED inv
       [] pc[t] = "handleAction_sent" ->       \* if result.Successful { Execute(state) }
            /\ inv' = [inv EXCEPT ![i].execs =
                 IF inv[i].result.ok THEN Append(@, inv[i].state) ELSE @]
            /\ pc' = [pc EXCEPT ![t] = "done"]
            /\ frame' = [frame EXCEPT ![t] = NoFrame]
  /\ UNCHANGED << connVars, connMu, actionsMu, actions, ret, readerVars, wire, win >>

\* ------------------------------------------------------------------ system
\* The steps of the goroutines the engine starts, and of a host inside a call.
Inside(t) == pc[t] \notin {"idle", "unborn", "done"}

\* The hosts use the engine directly.
Next ==
  \/ \E h \in Callers : Connect(h)
  \/ \E h \in Callers : Close(h)
  \/ \E h \in Callers : SendContext(h)
  \/ \E h \in Callers : SendShutdownReady(h)
  \/ \E h \in Callers : ForceActions(h)
  \/ \E t \in Tasks : RegisterActions(t)
  \/ \E t \in Tasks : UnregisterActions(t)
  \/ \E t \in Tasks : send(t)
  \/ readLoop
  \/ \E i \in 1..MaxSpawn : handleAction(i)
  \/ \E k \in 1..MaxSpawn : resendRegisteredActions(k)

Spec == Init /\ [][Next]_vars

\* The hosts use the engine through its Action Window; the third goroutine
\* connects, and the peer sends nothing.
WindowNext ==
  \/ \E h \in Hosts \ Callers : Connect(h)
  \/ \E h \in Callers : AddAction(h)
  \/ \E h \in Callers : SetForce(h)
  \/ \E t \in Tasks : Register(t)
  \/ \E h \in Callers : End(h)
  \/ \E t \in Tasks : Inside(t) /\ RegisterActions(t)
  \/ \E t \in Tasks : Inside(t) /\ UnregisterActions(t)
  \/ \E t \in Tasks : send(t)

WindowSpec == Init /\ [][WindowNext]_vars

\* The steps a goroutine takes once it is inside a call.  The Go scheduler runs
\* every runnable goroutine and its mutexes do not starve a waiter, so a step
\* that is enabled again and again is eventually taken.  The host is not obliged
\* to make a further call, nor the peer to send a further frame.
Proceed(t) ==
  /\ pc[t] # "idle"
  /\ \/ send(t)
     \/ RegisterActions(t)
     \/ UnregisterActions(t)
     \/ t \in Hosts /\ (Connect(t) \/ Close(t) \/ AddAction(t) \/ SetForce(t) \/ End(t))
     \/ Register(t)
     \/ \E i \in 1..MaxSpawn : t = Pipeline(i) /\ handleAction(i)
     \/ \E k \in 1..MaxSpawn : t = Resender(k) /\ resendRegisteredActions(k)

FairSpec == Spec /\ \A t \in Tasks : SF_vars(Proceed(t))

WindowFairSpec == WindowSpec /\ \A t \in Tasks : SF_vars(Proceed(t))

\* ------------------------------------------------------------------ properties
Connecting(h) == frame[h].op = "Connect" /\ frame[h].dialed /\ connected
Returned(h, op) == pc[h] = "idle" /\ ret[h].op = op
ResultOnWire(i) == \E k \in DOMAIN wire : wire[k].cmd = "action/result" /\ wire[k].id = i

\* C1: in an invocation pipeline, execute does not start before the pipeline
\* has called SendActionResult for that invocation.
C1_ResultSendBeforeExecute ==
  \A i \in 1..MaxSpawn : inv[i].execs # << >> => inv[i].attempts >= 1

C1_Witness ==
  \E i \in 1..MaxSpawn :
    /\ inv[i].result.ok /\ inv[i].attempts = 1
    /\ pc[Pipeline(i)] = "send" /\ frame[Pipeline(i)].msg.id = i

\* C2: an Incoming Action whose handler's validate succeeds eventually has its
\* execute invoked, exactly once, with the state validate returned.
C2_ExecuteOnceWithState ==
  \A i \in 1..MaxSpawn :
    (inv[i].result.ok /\ inv[i].attempts = 1) ~> (inv[i].execs = << inv[i].state >>)

\* C3: when validate fails, execute is never invoked and the result the
\* pipeline sends for the id is the failure with validate's message.
C3_FailureNeverExecutes ==
  \A i \in 1..MaxSpawn :
    (inv[i].handler # NoHandler /\ inv[i].attempts >= 1 /\ ~inv[i].result.ok) =>
      /\ inv[i].execs = << >>
      /\ inv[i].attempts = 1
      /\ inv[i].payload = SendActionResult(i, FALSE, inv[i].result.msg)
      /\ pc[Pipeline(i)] \in {"send", "send_locked", "send_write"} =>
           frame[Pipeline(i)].msg.success = FALSE
      /\ \A k \in DOMAIN wire :
           (wire[k].cmd = "action/result" /\ wire[k].id = i) =>
             (~wire[k].success /\ wire[k].message = inv[i].result.msg)

C3_Witness ==
  \E i \in 1..MaxSpawn :
    /\ inv[i].handler # NoHandler /\ inv[i].result = [ok |-> FALSE, msg |-> "bad"]
    /\ inv[i].attempts = 1 /\ pc[Pipeline(i)] = "send"

\* C4: an Incoming Action whose name is not registered is answered: its
\* "Unknown action" failure result is written, or the send returns, so the
\* invocation is not silently dropped.
C4_UnknownActionAnswered ==
  \A i \in 1..MaxSpawn :
    (inv[i].handler = NoHandler /\ inv[i].attempts = 1) ~>
      (ResultOnWire(i) \/ pc[Pipeline(i)] = "done")

\* C5: no public operation blocks indefinitely.  Only a goroutine inside a call
\* releases a lock, so when calls are in progress and no goroutine inside a call
\* can take a step, those calls never return: that state must not be reachable.
InCall(t) == pc[t] \notin {"idle", "unborn", "done"}

C5_NoCallBlocksForever ==
  (\E t \in Tasks : InCall(t)) => (\E t \in Tasks : ENABLED Proceed(t))

\* C6: a Connect whose handshake succeeded returns success to its caller.
C6_ConnectReturnsSuccess ==
  \A h \in Hosts : Connecting(h) ~> (Returned(h, "Connect") /\ ret[h].err = "nil")

\* C7: Connect called on an engine that is already connected or already closed
\* returns an error (and has not dialed).
C7_SecondConnectFails ==
  \A h \in Hosts :
    (pc[h] = "Connect" /\ frame[h].pre \in {"connected", "closed"}) ~>
      (/\ Returned(h, "Connect") /\ ~ret[h].dialed
       /\ ret[h].err \in {"already connected", "client is closed"})

\* C8: every Close call, the first and every later one, returns and leaves the
\* engine closed, its stop signal given once, without a panic.
C8_CloseReturns ==
  \A h \in Hosts :
    (pc[h] = "Close") ~>
      (Returned(h, "Close") /\ closed /\ closeChan = "closed" /\ ~panicked)

\* The step of RegisterActions that runs its loop, and the list it was given.
RegisterStep(t) == pc[t] = "RegisterActions" /\ pc'[t] # "RegisterActions"
RegisterList(t) ==
  IF t \in Hosts /\ pc'[t] = "idle" THEN ret'[t].handlers ELSE frame'[t].handlers
RegisterError(t) ==
  IF t \in Hosts /\ pc'[t] = "idle" THEN ret'[t].err ELSE frame'[t].err
HasEmptyName(H) == \E k \in DOMAIN H : H[k].name = ""
FirstEmptyName(H) == CHOOSE k \in DOMAIN H : H[k].name = "" /\ \A j \in 1..(k - 1) : H[j].name # ""
LastNamed(H, n) == CHOOSE k \in DOMAIN H : H[k].name = n /\ \A j \in (k + 1)..Len(H) : H[j].name # n

\* C11 as stated: for a list H with at least one non-empty-named handler,
\* after RegisterActions(H) the registry maps the name of each handler of H to
\* that handler.
C11_LookupReturnsEachHandler ==
  [][\A t \in Tasks : RegisterStep(t) =>
       LET H == RegisterList(t)
       IN  (\E k \in DOMAIN H : H[k].name # "") =>
             \A k \in DOMAIN H : H[k].name # "" => actions'[H[k].name] = H[k]]_vars

\* C11: for a list H whose handlers all have a name, after RegisterActions(H)
\* the registry maps each name of H to the last handler of H with that name,
\* whatever the name was registered to before, and the call goes on to send.
C11_LookupReturnsLastHandler ==
  [][\A t \in Tasks : RegisterStep(t) =>
       LET H == RegisterList(t)
       IN  ~HasEmptyName(H) =>
             /\ pc'[t] = "send"
             /\ \A k \in DOMAIN H : actions'[H[k].name] = H[LastNamed(H, H[k].name)]]_vars

C11_Witness ==
  \E t \in Tasks :
    /\ pc[t] = "send" /\ frame[t].op = "RegisterActions" /\ actionsMu.w = t
    /\ Len(frame[t].handlers) = 2
    /\ frame[t].handlers[1].name = frame[t].handlers[2].name
    /\ actions[frame[t].handlers[2].name] = frame[t].handlers[2]

\* C12: RegisterActions on a list with an empty-named handler returns the
\* validation error, sends nothing, and changes the registry only by the
\* handlers before the first empty-named one.
C12_EmptyNameRejected ==
  [][\A t \in Tasks : RegisterStep(t) =>
       LET H == RegisterList(t)
       IN  HasEmptyName(H) =>
             /\ pc'[t] # "send"
             /\ RegisterError(t) = "action name cannot be empty"
             /\ wire' = wire
             /\ \A n \in Names :
                  actions'[n] # actions[n] =>
                    \E k \in 1..(FirstEmptyName(H) - 1) : H[k] = actions'[n]]_vars

C12_Witness ==
  \E h \in Callers :
    /\ Returned(h, "RegisterActions") /\ ret[h].err = "action name cannot be empty"
    /\ Len(ret[h].handlers) = 2 /\ ret[h].handlers[2].name = ""
    /\ actions[ret[h].handlers[1].name] = ret[h].handlers[1]

\* C13: UnregisterActions(names) on a connected engine writes one
\* actions/unregister message that carries names (or at least returns).
C13_UnregisterSendsNames ==
  \A h \in Callers : \A names \in Lists(Names, MaxBatch) :
    (connected /\ ~closed /\ frame[h].op = "UnregisterActions" /\ pc[h] = "send"
       /\ frame[h].names = names)
      ~> (\/ \E k \in DOMAIN wire :
               wire[k].cmd = "actions/unregister" /\ wire[k].names = names
          \/ Returned(h, "UnregisterActions"))

\* C14: once the window is registered, no step, and so no AddAction and no
\* SetForce, changes its handler list, its query or its force options, and it
\* stays registered.
C14_RegisteredWindowFrozen ==
  [][win.registered =>
       /\ win'.registered
       /\ win'.actions = win.actions
       /\ win'.force = win.force]_vars

C14_Witness ==
  \E h \in Callers :
    /\ win.registered /\ win.mu = None
    /\ Returned(h, "AddAction")

\* C15: a Register call made on a window that is already registered returns
\* the state error "window already registered".
C15_SecondRegisterFails ==
  \A h \in Callers :
    (pc[h] = "Register" /\ win.registered)
      ~> (Returned(h, "Register") /\ ret[h].err = "window already registered")

\* C16: Register on a connected engine, for a window whose handlers all have a
\* name, writes the window's actions/register message and then its
\* actions/force message, with the handlers' names in list order and the stored
\* query and options.
C16_RegisterThenForce ==
  \A h \in Callers :
    (connected /\ ~closed /\ frame[h].op = "Register" /\ pc[h] = "send")
      ~> (\E i, j \in DOMAIN wire :
            /\ i < j
            /\ wire[i].cmd = "actions/register"
            /\ wire[j] = [ForceMessage(win.force, GetNames(win.actions)) EXCEPT !.game = Game])

\* C17: End on a registered window, on a connected engine, writes one
\* actions/unregister message with the names of the window's handlers in list
\* order (or at least returns).
C17_EndUnregisters ==
  \A h \in Callers :
    (connected /\ ~closed /\ frame[h].op = "End" /\ pc[h] = "send"
       /\ ~HasEmptyName(win.actions))
      ~> (\/ \E k \in DOMAIN wire :
               wire[k].cmd = "actions/unregister" /\ wire[k].names = GetNames(win.actions)
          \/ Returned(h, "End"))

\* C18: reading a malformed frame leaves the read loop running and publishes
\* no error, and the loop then still dispatches the next well-formed frame.
C18_MalformedFrameSkipped ==
  [][/\ (rl = "running" /\ ~rlErr /\ rlErr' /\ closeChan = "open") =>
          (rl' = "running" /\ errs' = errs)
     /\ (rl = "running" /\ rlErr /\ conn = "open" /\ nInv + nRereg < MaxSpawn /\ ~panicked) =>
          ENABLED (readLoop /\ nInv' = nInv + 1 /\ ~rlErr')]_vars

C18_Witness ==
  /\ rl = "running" /\ rlErr /\ errs = 0
  /\ ENABLED (readLoop /\ nInv' = nInv + 1)

\* C19: a read failure stops the read loop for good: no frame is dispatched and
\* no read loop is started afterwards; the failure publishes one error when the
\* engine is not closed and none when it is, so at most one error is published.
C19_ReadFailureStopsLoop ==
  [][/\ (rl = "stopped") =>
          (rl' = "stopped" /\ errs' = errs /\ readLoops' = readLoops
             /\ nInv' = nInv /\ nRereg' = nRereg)
     /\ (rl = "running" /\ rl' = "stopped" /\ closeChan = "open") =>
          errs' = IF closed THEN errs ELSE errs + 1
     /\ errs' <= 1]_vars

C19_Witness == rl = "stopped" /\ errs = 1 /\ ~closed /\ readLoops = 1

\* C21: a dispatched actions/reregister_all gets its actions/register message
\* written (or, at least, its goroutine ends): the goroutine that re-sends the
\* registry does not stay in its send for ever.
C21_ReregisterSendsRegistry ==
  \A k \in 1..MaxSpawn :
    (pc[Resender(k)] = "send" /\ frame[Resender(k)].handlers # << >>)
      ~> (\/ \E j \in DOMAIN wire : wire[j].cmd = "actions/register"
          \/ pc[Resender(k)] = "done")

\* C22: a RegisterActions call that fails leaves the registry as it was: the
\* step of the call that finds an empty name, and so makes the call return the
\* validation error, changes no entry of the registry.
C22_RegisterFailureAtomic ==
  [][\A t \in Tasks :
       (RegisterStep(t) /\ RegisterError(t) # "nil") => actions' = actions]_vars

\* C23: a Register whose RegisterActions failed returns the error and starts no
\* force goroutine; the force goroutine is started only by a Register whose
\* RegisterActions succeeded, and at most one Register call ever gets as far as
\* RegisterActions, so none is started for that window later.  The window stays
\* registered and keeps its handlers, query and options, and a Register call
\* that finds it registered returns "window already registered" and does
\* nothing else.
C23_FailedRegisterIsFinal ==
  [][/\ \A t \in Tasks :
          (pc[t] = "Register_registered" /\ pc'[t] # "Register_registered"
             /\ frame[t].err # "nil") =>
            /\ pc'[t] = "idle" /\ ret'[t].op = "Register"
            /\ ret'[t].err = "failed to register actions"
            /\ pc'[Forcer] = "unborn"
     /\ (pc[Forcer] = "unborn" /\ pc'[Forcer] # "unborn") =>
          \E t \in Tasks : pc[t] = "Register_registered" /\ frame[t].err = "nil"
     /\ \A s, t \in Tasks \ {Forcer} :
          (/\ frame'[s].op = "Register" /\ pc'[s] # "Register"
           /\ frame'[t].op = "Register" /\ pc'[t] # "Register") => s = t
     /\ \A t \in Tasks :
          (pc[t] = "Register" /\ pc'[t] # "Register" /\ win.registered) =>
            /\ pc'[t] = "idle" /\ ret'[t].err = "window already registered"
            /\ win' = win /\ actions' = actions /\ wire' = wire
     /\ win.registered =>
          (win'.registered /\ win'.actions = win.actions /\ win'.force = win.force)
     /\ \A k \in DOMAIN wire' : wire'[k].cmd # "actions/force"]_vars

\* the registering call has failed and gone (no force goroutine exists), and a
\* later Register has returned the state error
C23_Witness ==
  /\ win.registered /\ win.mu = None /\ pc[Forcer] = "unborn"
  /\ \A t \in Tasks : frame[t].op # "Register"
  /\ \E h \in Callers :
       Returned(h, "Register") /\ ret[h].err = "window already registered"

\* An End call has run on the registered window: it returned what its
\* UnregisterActions returned (End on a window that is not registered returns
\* nil without calling anything).
EndHasRun == \E h \in Callers : Returned(h, "End") /\ ret[h].err # "nil"

\* C24: once End has run on the registered window, a further End call makes no
\* transition: it does not call UnregisterActions again.
C24_EndIdempotent ==
  [][EndHasRun =>
       \A t \in Tasks : ~(pc[t] = "End" /\ pc'[t] = "UnregisterActions")]_vars

\* C25: the goroutine that handles actions/reregister_all adds no name to the
\* registry: the step in which its RegisterActions stores the handlers it read
\* leaves every name that is absent from the registry absent.
C25_ReregisterAddsNoName ==
  [][\A k \in 1..MaxSpawn :
       RegisterStep(Resender(k)) =>
         \A n \in Names : actions[n] = NoHandler => actions'[n] = NoHandler]_vars

\* the goroutine has read a handler named n and is about to call
\* RegisterActions with it, and an unregister has since removed n
C25_Witness ==
  \E k \in 1..MaxSpawn : \E n \in Names :
    /\ pc[Resender(k)] = "RegisterActions"
    /\ \E j \in DOMAIN frame[Resender(k)].handlers : frame[Resender(k)].handlers[j].name = n
    /\ actions[n] = NoHandler

\* The step in which pipeline i calls its handler's Validate.
ValidateStarts(i) ==
  /\ pc[Pipeline(i)] = "handleAction_validate" /\ frame[Pipeline(i)].op # "Validate"
  /\ pc'[Pipeline(i)] # "handleAction_validate"

C29_ValidateMayUnregister ==
  \A i \in 1..MaxSpawn :
    (frame[Pipeline(i)].op = "Validate" /\ pc[Pipeline(i)] = "send"
       /\ actionsMu.w = Pipeline(i))
      ~> (frame[Pipeline(i)].op = "Validate" /\ pc[Pipeline(i)] = "handleAction_validate")

====
